---------------------------- MODULE Spec2Model ----------------------------
(***************************************************************************)
(* Model of the vesting scripts of SYMM-IO/token:                          *)
(*   scripts/future_reset_vesting_plans.py  calculate_future_locked_amount,*)
(*                                          batch_list, main               *)
(*   scripts/reset_vesting_plans.py         update_vesting_plans           *)
(*   scripts/vesting_setup.py               update_vesting_plans           *)
(* One run of the model is one run of one entry point, chosen in Init by   *)
(* the variable script.  Python values are modelled as they are computed:  *)
(* lists are sequences, tuples are tuples, // is floor division, a slice   *)
(* normalises its indices as Python does, and a raised exception is a      *)
(* value of its own (never a silently chosen result).                      *)
(***************************************************************************)
EXTENDS Integers, Sequences, FiniteSets, TLC

\* ------------------------------------------------------------------ bounds
\* Largest totalAmount / claimedAmount of a fetched vesting plan.
MaxAmount == 3
\* Largest startTime / endTime of a fetched vesting plan.
MaxTime == 4
\* Longest list handed to batch_list.
MaxLen == 7
\* Largest magnitude of a batch size (negative and zero sizes included).
MaxBatch == 3

\* Most rows of the CSV file read by update_vesting_plans.
MaxRows == 3

\* The worked example of the vesting calculation: (amount, claimed, start, end).
ExamplePlan == <<1000, 0, 1000, 2000>>
ExampleTimes == {1500}

\* Pending amounts the pendingAmount multicall can return.
PendingAmounts == {0, 1}

\* Items of the lists handed to batch_list (two values, so that a reordering
\* or a duplication of items changes the list).
Items == {"a", "b"}

\* Amounts a CSV row can add, locked amounts getLockedAmountsForToken can
\* return, and (totalAmount, claimedAmount, startTime, endTime) tuples
\* vestingPlans can return to vesting_setup.py.
CsvAmounts == {1, 2}
LockedAmounts == {0, 2}
InfoPlans == {<<0, 0, 0, 0>>, <<2, 0, 0, 4>>, <<2, 1, 0, 4>>}

VARIABLES
    script,            \* the entry point this run executes
    pc,                \* its position
    raised,            \* the exception that left the entry point, or "none"
    vesting_plan,      \* calculate_future_locked_amount: argument
    future_timestamp,  \* calculate_future_locked_amount: argument of the last call
    locked,            \* calculate_future_locked_amount: outcome of the last call
    prev_timestamp,    \* argument of the call before the last
    prev_locked,       \* outcome of the call before the last
    input_list,        \* batch_list: argument
    batch_size,        \* batch_list / update_vesting_plans: argument
    i,                 \* batch_list: the range's current index; main: rows processed
    batches,           \* batch_list: the batches yielded so far
    user_updates,      \* update_vesting_plans: rows (user, amount) of the CSV file
    current_locked,    \* reset_vesting_plans.py: result of get_current_locked_amounts
    vesting_info,      \* vesting_setup.py: result of get_vesting_plan_info
    dry_run,           \* vesting_setup.py: argument
    updated_data,      \* reset_vesting_plans.py: result of prepare_update_data
    existing_updates,  \* vesting_setup.py: result of prepare_update_data
    new_setups,        \* vesting_setup.py: result of prepare_update_data
    total_batches,     \* total_batches / total_reset_batches / total_setup_batches
    batch_num,         \* the loop variable of the running batching loop
    batch_data,        \* the slice of the running iteration
    transaction_hashes,     \* reset_vesting_plans.py: hashes of the successful batches
    all_transaction_hashes, \* vesting_setup.py: (operation, hash) of the successful batches
    all_batch_data,    \* vesting_setup.py: the batch_info records of a dry run
    txs,               \* the chain: every transaction sent, with its receipt status
    progress,          \* the files written by save_progress, in order
    dry_run_summary,   \* the files written by save_dry_run_summary, in order
    users_data,        \* main: rows (user, amount) parsed from users_amounts.csv
    vesting_results,   \* main: the plans fetched by the vestingPlans multicall
    pending_amounts,   \* main: dict user -> pending amount
    setup_users,       \* main: users for setupVestingPlans
    setup_amounts,     \* main: their amounts
    reset_users,       \* main: users for resetVestingPlans
    reset_amounts,     \* main: their amounts
    user_batches,      \* main: list(batch_list(setup_users, BATCH_SIZE))
    amount_batches,    \* main: list(batch_list(setup_amounts, BATCH_SIZE))
    batch_index,       \* main: batches of the zip already encoded
    calldata           \* main: every call handed to encode_abi, in order

calcVars == <<vesting_plan, future_timestamp, locked, prev_timestamp, prev_locked>>
genVars == <<input_list, i, batches>>
inputVars == <<user_updates, current_locked, vesting_info, dry_run>>
preparedVars == <<updated_data, existing_updates, new_setups>>
loopVars == <<total_batches, batch_num, batch_data>>
hashVars == <<transaction_hashes, all_transaction_hashes, all_batch_data>>
fileVars == <<progress, dry_run_summary>>
scriptVars == <<inputVars, preparedVars, loopVars, hashVars, txs, fileVars>>
fetchedVars == <<users_data, vesting_results, pending_amounts>>
listVars == <<setup_users, setup_amounts, reset_users, reset_amounts>>
encodeVars == <<user_batches, amount_batches, batch_index, calldata>>
mainVars == <<fetchedVars, listVars, encodeVars>>

vars == <<script, pc, raised, batch_size, calcVars, genVars, scriptVars, mainVars>>

\* ------------------------------------------------------- Python primitives
NoCall == [raised |-> "nocall", value |-> 0]
Return(v) == [raised |-> "none", value |-> v]
Raise(e) == [raised |-> e, value |-> 0]

Min(a, b) == IF a <= b THEN a ELSE b

\* Python's a // b on integers: floor division, ZeroDivisionError when b = 0.
PyFloorDiv(a, b) ==
    IF b = 0 THEN Raise("ZeroDivisionError")
    ELSE IF b > 0 THEN Return(a \div b)
    ELSE Return((0 - a) \div (0 - b))

\* Python's index normalisation inside a slice lst[lo:hi] of a list of length n.
PySliceIndex(k, n) ==
    IF k < 0 THEN (IF k + n < 0 THEN 0 ELSE k + n)
    ELSE IF k > n THEN n ELSE k

\* The slice with its upper index taken inclusively.
PySliceInclusive(lst, lo, hi) ==
    LET n == Len(lst)
        l == PySliceIndex(lo, n)
        h == PySliceIndex(hi + 1, n)
    IN  IF l < h THEN SubSeq(lst, l + 1, h) ELSE <<>>

\* Python's lst[lo:hi].
PySlice(lst, lo, hi) ==
    LET n == Len(lst)
        l == PySliceIndex(lo, n)
        h == PySliceIndex(hi, n)
    IN  IF l < h THEN SubSeq(lst, l + 1, h) ELSE <<>>

\* ------------------------------------------ calculate_future_locked_amount
\* The division of the partial-unlock branch under a plausible slip: rounding
\* the unlocked amount up instead of down.
UnlockedRoundUp(amount, elapsed, duration) ==
    PyFloorDiv(amount * elapsed + duration - 1, duration)

\* unlocked = (amount * elapsed) // duration
Unlocked(amount, elapsed, duration) ==
    PyFloorDiv(amount * elapsed, duration)

\* The function with its two boundary tests swapped (start tested first).
LockedStartFirst(plan, ts) ==
    LET amount == plan[1]
        start_time == plan[3]
        end_time == plan[4]
    IN  IF amount = 0 THEN Return(0)
        ELSE IF ts <= start_time THEN Return(amount)
        ELSE IF ts >= end_time THEN Return(0)
        ELSE LET u == Unlocked(amount, ts - start_time, end_time - start_time)
             IN  IF u.raised # "none" THEN u ELSE Return(amount - u.value)

\* The function with the unlocked amount of a fully vested plan taken from the
\* claimed amount, and no early return for a zero amount.
LockedFromClaimed(plan, ts) ==
    LET amount == plan[1]
        claimed_amount == plan[2]
        start_time == plan[3]
        end_time == plan[4]
    IN  IF ts >= end_time THEN Return(amount - claimed_amount)
        ELSE IF ts <= start_time THEN Return(amount - 0)
        ELSE LET u == Unlocked(amount, ts - start_time, end_time - start_time)
             IN  IF u.raised # "none" THEN u ELSE Return(amount - u.value)

\* The function returning the unlocked amount instead of the locked one.
ReturnsUnlocked(plan, ts) ==
    LET amount == plan[1]
        start_time == plan[3]
        end_time == plan[4]
    IN  IF amount = 0 THEN Return(0)
        ELSE IF ts >= end_time THEN Return(amount)
        ELSE IF ts <= start_time THEN Return(0)
        ELSE Unlocked(amount, ts - start_time, end_time - start_time)

\* The function with strict boundary tests (> and < for >= and <=).
LockedStrictTests(plan, ts) ==
    LET amount == plan[1]
        start_time == plan[3]
        end_time == plan[4]
    IN  IF amount = 0 THEN Return(0)
        ELSE IF ts > end_time THEN Return(amount - amount)
        ELSE IF ts < start_time THEN Return(amount - 0)
        ELSE LET u == Unlocked(amount, ts - start_time, end_time - start_time)
             IN  IF u.raised # "none" THEN u ELSE Return(amount - u.value)

calculate_future_locked_amount(plan, ts) ==
    LET amount == plan[1]
        start_time == plan[3]
        end_time == plan[4]
    IN  IF amount = 0 THEN Return(0)
        ELSE IF ts >= end_time THEN Return(amount - amount)
        ELSE IF ts <= start_time THEN Return(amount - 0)
        ELSE LET u == Unlocked(amount, ts - start_time, end_time - start_time)
             IN  IF u.raised # "none" THEN u ELSE Return(amount - u.value)

\* The plans a fetch can return and the timestamps a caller can pass.
Plans ==
    {<<a, c, s, e>> : a \in 0..MaxAmount, c \in 0..MaxAmount,
                      s \in 0..MaxTime, e \in 0..MaxTime}
    \cup {ExamplePlan}
Times == 0..(MaxTime + 1) \cup ExampleTimes \cup {ExamplePlan[3], ExamplePlan[4]}

\* One call calculate_future_locked_amount(vesting_plan, ts).
Calculate ==
    /\ script = "calc"
    /\ \E ts \in Times :
        /\ future_timestamp' = ts
        /\ locked' = calculate_future_locked_amount(vesting_plan, ts)
    /\ prev_timestamp' = future_timestamp
    /\ prev_locked' = locked
    /\ pc' = "returned"
    /\ UNCHANGED <<mainVars, script, raised, vesting_plan, batch_size, genVars, scriptVars>>

\* -------------------------------------------------------------- batch_list
\* Whether Python's range(0, stop, step) still holds the index k.
InRange(k, stop, step) ==
    IF step > 0 THEN k < stop ELSE k > stop

\* The loop step under a plausible slip: advancing by one item too many.
NextIndexSkip(k, step) == k + step + 1

NextIndex(k, step) == k + step

\* First next(): range(0, len(input_list), 0) raises ValueError.
BatchListRaise ==
    /\ script = "batch"
    /\ pc = "start"
    /\ batch_size = 0
    /\ raised' = "ValueError"
    /\ pc' = "raised"
    /\ UNCHANGED <<mainVars, script, batch_size, calcVars, genVars, scriptVars>>

\* yield input_list[i : i + batch_size]
BatchListYield ==
    /\ script = "batch"
    /\ pc \in {"start", "yielded"}
    /\ batch_size # 0
    /\ InRange(i, Len(input_list), batch_size)
    /\ batches' = Append(batches, PySlice(input_list, i, i + batch_size))
    /\ i' = NextIndex(i, batch_size)
    /\ pc' = "yielded"
    /\ UNCHANGED <<mainVars, script, raised, batch_size, calcVars, input_list, scriptVars>>

\* The range is exhausted: the generator stops.
BatchListStop ==
    /\ script = "batch"
    /\ pc \in {"start", "yielded"}
    /\ batch_size # 0
    /\ ~InRange(i, Len(input_list), batch_size)
    /\ pc' = "done"
    /\ UNCHANGED <<mainVars, script, raised, batch_size, calcVars, genVars, scriptVars>>

\* ------------------------------------------- the batching loops' helpers
\* The number of batches under a plausible slip: len // batch_size + 1.
TotalBatchesPlusOne(lst, bs) ==
    LET q == PyFloorDiv(Len(lst), bs)
    IN  IF q.raised # "none" THEN q ELSE Return(q.value + 1)

\* total_batches = (len(lst) + batch_size - 1) // batch_size
TotalBatches(lst, bs) == PyFloorDiv(Len(lst) + bs - 1, bs)

\* start_idx = batch_num * batch_size
\* end_idx = min((batch_num + 1) * batch_size, len(lst))
\* batch_data = lst[start_idx:end_idx]
BatchData(lst, bn, bs) == PySlice(lst, bn * bs, Min((bn + 1) * bs, Len(lst)))

\* batch_users = [user for user, _ in batch_data]
BatchUsers(bd) == [k \in 1..Len(bd) |-> bd[k][1]]
\* batch_amounts = [amount for _, amount in batch_data]
BatchAmounts(bd) == [k \in 1..Len(bd) |-> bd[k][2]]

\* The receipt test under a plausible slip: a failed receipt is not noticed.
TransactionFailedNever(receipt) == FALSE

\* if receipt['status'] == 1: ... else: raise Exception(...)
TransactionFailed(receipt) == receipt[1] # 1

\* A transaction as the chain holds it; its hash is its position in txs.  Its
\* receipt is <<>> until one is obtained, then <<status>>.
Tx(op, bd, bn) ==
    [op |-> op, users |-> BatchUsers(bd), amounts |-> BatchAmounts(bd),
     batch_num |-> bn, receipt |-> <<>>]

\* What wait_for_transaction_receipt can end with: a receipt of status 1 or
\* 0, or no receipt (it raises TimeExhausted).
ReceiptOutcomes == {<<1>>, <<0>>, <<>>}

\* ------------------------------ reset_vesting_plans.py: update_vesting_plans
\* prepare_update_data(user_updates, current_locked)
ResetPrepareUpdateData(updates, lockedNow) ==
    [k \in 1..Len(updates) |-> <<updates[k][1], lockedNow[k] + updates[k][2]>>]

\* A failure handler that saves nothing.
ResetSaveNothing(hashes, processed) == UNCHANGED progress

\* save_progress(transaction_hashes, batches_processed)
ResetSaveProgress(hashes, processed) ==
    progress' = Append(progress, [transaction_hashes |-> hashes,
                                  batches_processed |-> processed])

\* Lines 162-179: load, fetch, prepare, and the number of batches.
ResetPrepare ==
    /\ script = "reset"
    /\ pc = "start"
    /\ LET data == ResetPrepareUpdateData(user_updates, current_locked)
           t == TotalBatches(data, batch_size)
       IN  /\ updated_data' = data
           /\ IF t.raised # "none"
              THEN /\ raised' = t.raised
                   /\ pc' = "raised"
                   /\ UNCHANGED total_batches
              ELSE /\ total_batches' = t.value
                   /\ pc' = "loop"
                   /\ UNCHANGED raised
    /\ UNCHANGED <<mainVars, script, batch_size, calcVars, genVars, inputVars, existing_updates,
                   new_setups, batch_num, batch_data, hashVars, txs, fileVars>>

\* One iteration up to send_raw_transaction, which sends the transaction.
ResetSend ==
    /\ script = "reset"
    /\ pc = "loop"
    /\ batch_num < total_batches
    /\ LET bd == BatchData(updated_data, batch_num, batch_size)
       IN  /\ batch_data' = bd
           /\ txs' = Append(txs, Tx("reset", bd, batch_num + 1))
    /\ pc' = "wait"
    /\ UNCHANGED <<mainVars, script, raised, batch_size, calcVars, genVars, inputVars, preparedVars,
                   total_batches, batch_num, hashVars, fileVars>>

\* One iteration in which building, signing or sending raises: nothing is
\* sent, the handler saves the progress and raises again.
ResetSendRaises ==
    /\ script = "reset"
    /\ pc = "loop"
    /\ batch_num < total_batches
    /\ batch_data' = BatchData(updated_data, batch_num, batch_size)
    /\ ResetSaveProgress(transaction_hashes, batch_num)
    /\ raised' = "Exception"
    /\ pc' = "raised"
    /\ UNCHANGED <<mainVars, script, batch_size, calcVars, genVars, inputVars, preparedVars,
                   total_batches, batch_num, hashVars, txs, dry_run_summary>>

\* wait_for_transaction_receipt returns or raises; the rest of the iteration.
ResetReceipt ==
    /\ script = "reset"
    /\ pc = "wait"
    /\ \E outcome \in ReceiptOutcomes :
        LET h == Len(txs) IN
        IF outcome = <<>> \/ TransactionFailed(outcome)
        THEN /\ txs' = [txs EXCEPT ![h].receipt = outcome]
             /\ ResetSaveProgress(transaction_hashes, batch_num)
             /\ raised' = "Exception"
             /\ pc' = "raised"
             /\ UNCHANGED <<transaction_hashes, batch_num>>
        ELSE /\ txs' = [txs EXCEPT ![h].receipt = outcome]
             /\ transaction_hashes' = Append(transaction_hashes, h)
             /\ batch_num' = batch_num + 1
             /\ pc' = "loop"
             /\ UNCHANGED <<raised, progress>>
    /\ UNCHANGED <<mainVars, script, batch_size, calcVars, genVars, inputVars, preparedVars,
                   total_batches, batch_data, all_transaction_hashes, all_batch_data,
                   dry_run_summary>>

\* The loop is over: save_progress(transaction_hashes, total_batches).
ResetFinish ==
    /\ script = "reset"
    /\ pc = "loop"
    /\ batch_num >= total_batches
    /\ ResetSaveProgress(transaction_hashes, total_batches)
    /\ pc' = "done"
    /\ UNCHANGED <<mainVars, script, raised, batch_size, calcVars, genVars, inputVars, preparedVars,
                   loopVars, hashVars, txs, dry_run_summary>>

\* ---------------------------------- vesting_setup.py: update_vesting_plans
\* A prepare_update_data that adds to the plan's total amount, claimed part
\* included.
RECURSIVE SetupPrepareFromTotal(_, _, _, _, _)
SetupPrepareFromTotal(updates, info, k, existing, new) ==
    IF k > Len(updates) THEN <<existing, new>>
    ELSE IF info[k][1] > 0
         THEN SetupPrepareFromTotal(updates, info, k + 1,
                  Append(existing, <<updates[k][1], info[k][1] + updates[k][2]>>), new)
         ELSE SetupPrepareFromTotal(updates, info, k + 1, existing,
                  Append(new, <<updates[k][1], updates[k][2]>>))

\* prepare_update_data(user_updates, vesting_info, dry_run): the loop from
\* row k on, with the two lists built so far; returns (existing_updates,
\* new_setups).
RECURSIVE SetupPrepareUpdateData(_, _, _, _, _)
SetupPrepareUpdateData(updates, info, k, existing, new) ==
    IF k > Len(updates) THEN <<existing, new>>
    ELSE LET user == updates[k][1]
             amount_to_add == updates[k][2]
             total_amount == info[k][1]
             claimed_amount == info[k][2]
         IN  IF total_amount > 0
             THEN LET current == total_amount - claimed_amount
                      new_amount == current + amount_to_add
                  IN  SetupPrepareUpdateData(updates, info, k + 1,
                                             Append(existing, <<user, new_amount>>), new)
             ELSE SetupPrepareUpdateData(updates, info, k + 1, existing,
                                         Append(new, <<user, amount_to_add>>))

\* The list the running loop batches.
LoopList(op) == IF op = "reset" THEN existing_updates ELSE new_setups
LoopPc(op) == IF op = "reset" THEN "reset_loop" ELSE "setup_loop"
WaitPc(op) == IF op = "reset" THEN "reset_wait" ELSE "setup_wait"
Operations == {"reset", "setup"}

\* batch_info of a dry run (lines 407-413 and 451-459).
BatchInfo(op, bd, bn) ==
    [operation |-> op, batch_number |-> bn, users |-> BatchUsers(bd),
     amounts |-> BatchAmounts(bd), user_updates |-> bd]

\* save_progress(all_transaction_hashes, batches_processed)
SetupSaveProgress(hashes, processed) ==
    progress' = Append(progress, [transaction_hashes |-> hashes,
                                  batches_processed |-> processed])

\* An end of update_vesting_plans that saves the progress in a dry run too.
SetupFinalizeWithProgress(existing, setups, infos, hashes) ==
    /\ pc' = "done"
    /\ SetupSaveProgress(hashes, Len(infos))
    /\ IF dry_run
       THEN dry_run_summary' =
                Append(dry_run_summary,
                       [all_batch_data |-> infos,
                        existing_updates |-> existing,
                        new_setups |-> setups])
       ELSE UNCHANGED dry_run_summary
    /\ UNCHANGED <<raised, total_batches, batch_num>>

\* Lines 473-476: the end of update_vesting_plans.
SetupFinalize(existing, setups, infos, hashes) ==
    /\ pc' = "done"
    /\ IF dry_run
       THEN /\ dry_run_summary' =
                 Append(dry_run_summary,
                        [all_batch_data |-> infos,
                         existing_updates |-> existing,
                         new_setups |-> setups])
            /\ UNCHANGED progress
       ELSE /\ SetupSaveProgress(hashes, Len(infos))
            /\ UNCHANGED dry_run_summary
    /\ UNCHANGED <<raised, total_batches, batch_num>>

\* Entering a batching loop over lst (lines 392 and 436).
SetupEnterLoop(op, lst) ==
    LET t == TotalBatches(lst, batch_size)
    IN  /\ IF t.raised # "none"
           THEN /\ raised' = t.raised
                /\ pc' = "raised"
                /\ UNCHANGED total_batches
           ELSE /\ total_batches' = t.value
                /\ pc' = LoopPc(op)
                /\ UNCHANGED raised
        /\ batch_num' = 0
        /\ UNCHANGED fileVars

\* Lines 427-476: what follows the reset loop.
SetupAfterReset(existing, setups, infos, hashes) ==
    IF setups # <<>> THEN SetupEnterLoop("setup", setups)
    ELSE SetupFinalize(existing, setups, infos, hashes)

\* Lines 359-392: load, fetch, prepare, and on to the first loop that has
\* users (or to the end when both lists are empty).
SetupPrepare ==
    /\ script = "setup"
    /\ pc = "start"
    /\ LET lists == SetupPrepareUpdateData(user_updates, vesting_info, 1, <<>>, <<>>)
       IN  /\ existing_updates' = lists[1]
           /\ new_setups' = lists[2]
           /\ IF lists[1] # <<>> THEN SetupEnterLoop("reset", lists[1])
              ELSE SetupAfterReset(lists[1], lists[2], all_batch_data,
                                   all_transaction_hashes)
    /\ UNCHANGED <<mainVars, script, batch_size, calcVars, genVars, inputVars, updated_data,
                   batch_data, hashVars, txs>>

\* One iteration of a dry run: the batch_info is recorded, nothing is sent.
SetupDryBatch(op) ==
    /\ script = "setup"
    /\ pc = LoopPc(op)
    /\ dry_run
    /\ batch_num < total_batches
    /\ LET bd == BatchData(LoopList(op), batch_num, batch_size)
       IN  /\ batch_data' = bd
           /\ all_batch_data' = Append(all_batch_data, BatchInfo(op, bd, batch_num + 1))
    /\ batch_num' = batch_num + 1
    /\ UNCHANGED <<mainVars, script, pc, raised, batch_size, calcVars, genVars, inputVars,
                   preparedVars, total_batches, transaction_hashes,
                   all_transaction_hashes, txs, fileVars>>

\* One live iteration up to send_raw_transaction, which sends the transaction.
SetupSend(op) ==
    /\ script = "setup"
    /\ pc = LoopPc(op)
    /\ ~dry_run
    /\ batch_num < total_batches
    /\ LET bd == BatchData(LoopList(op), batch_num, batch_size)
       IN  /\ batch_data' = bd
           /\ txs' = Append(txs, Tx(op, bd, batch_num + 1))
    /\ pc' = WaitPc(op)
    /\ UNCHANGED <<mainVars, script, raised, batch_size, calcVars, genVars, inputVars, preparedVars,
                   total_batches, batch_num, hashVars, fileVars>>

\* One live iteration in which building, signing or sending raises.
SetupSendRaises(op) ==
    /\ script = "setup"
    /\ pc = LoopPc(op)
    /\ ~dry_run
    /\ batch_num < total_batches
    /\ batch_data' = BatchData(LoopList(op), batch_num, batch_size)
    /\ SetupSaveProgress(all_transaction_hashes, batch_num)
    /\ raised' = "Exception"
    /\ pc' = "raised"
    /\ UNCHANGED <<mainVars, script, batch_size, calcVars, genVars, inputVars, preparedVars,
                   total_batches, batch_num, hashVars, txs, dry_run_summary>>

\* wait_for_transaction_receipt returns or raises; the rest of the iteration.
SetupReceipt(op) ==
    /\ script = "setup"
    /\ pc = WaitPc(op)
    /\ \E outcome \in ReceiptOutcomes :
        LET h == Len(txs) IN
        /\ txs' = [txs EXCEPT ![h].receipt = outcome]
        /\ IF outcome = <<>> \/ TransactionFailed(outcome)
           THEN /\ SetupSaveProgress(all_transaction_hashes, batch_num)
                /\ raised' = "Exception"
                /\ pc' = "raised"
                /\ UNCHANGED <<all_transaction_hashes, batch_num>>
           ELSE /\ all_transaction_hashes' = Append(all_transaction_hashes, <<op, h>>)
                /\ batch_num' = batch_num + 1
                /\ pc' = LoopPc(op)
                /\ UNCHANGED <<raised, progress>>
    /\ UNCHANGED <<mainVars, script, batch_size, calcVars, genVars, inputVars, preparedVars,
                   total_batches, batch_data, transaction_hashes, all_batch_data,
                   dry_run_summary>>

\* The reset loop is over: on to the setup loop, or to the end.
SetupResetLoopEnd ==
    /\ script = "setup"
    /\ pc = "reset_loop"
    /\ batch_num >= total_batches
    /\ SetupAfterReset(existing_updates, new_setups, all_batch_data,
                       all_transaction_hashes)
    /\ UNCHANGED <<mainVars, script, batch_size, calcVars, genVars, inputVars, preparedVars,
                   batch_data, hashVars, txs>>

\* The setup loop is over: the end of update_vesting_plans.
SetupFinish ==
    /\ script = "setup"
    /\ pc = "setup_loop"
    /\ batch_num >= total_batches
    /\ SetupFinalize(existing_updates, new_setups, all_batch_data,
                     all_transaction_hashes)
    /\ UNCHANGED <<mainVars, script, batch_size, calcVars, genVars, inputVars, preparedVars,
                   batch_data, hashVars, txs>>

\* -------------------------------------- future_reset_vesting_plans.py: main
EXECUTION_TIMESTAMP == 1749996000

\* The plans the vestingPlans multicall returns to main: none, one in its
\* vesting period at EXECUTION_TIMESTAMP (5 * 2 // 3 = 3 unlocked), one ending
\* at it, one not yet started.
MainPlans ==
    {<<0, 0, 0, 0>>,
     <<5, 1, EXECUTION_TIMESTAMP - 2, EXECUTION_TIMESTAMP + 1>>,
     <<3, 0, EXECUTION_TIMESTAMP - 2, EXECUTION_TIMESTAMP>>,
     <<3, 3, EXECUTION_TIMESTAMP + 1, EXECUTION_TIMESTAMP + 2>>}

\* The values BATCH_SIZE is configured with (150 in the source); main reads it
\* from batch_size.
BATCH_SIZES == 1..MaxBatch

\* A test for "no plan" that looks at the claimed amount.
NothingClaimed(plan) == plan[2] = 0

\* if plan[0] == 0:  # No existing plan
HasNoPlan(plan) == plan[1] = 0

\* Lines 209-212: the users whose fetched plan has amount 0, from row k on.
RECURSIVE NoVestingUsers(_, _, _)
NoVestingUsers(data, results, k) ==
    IF k > Len(data) THEN <<>>
    ELSE IF HasNoPlan(results[k])
         THEN <<data[k][1]>> \o NoVestingUsers(data, results, k + 1)
         ELSE NoVestingUsers(data, results, k + 1)

\* for i, user in enumerate(no_vesting_users): pending_amounts[user] = results[i]
MapResults(users, results) ==
    [u \in {users[k] : k \in 1..Len(users)} |->
        results[CHOOSE k \in 1..Len(users) :
                    /\ users[k] = u
                    /\ \A j \in (k + 1)..Len(users) : users[j] # u]]

\* A dict lookup that always answers the default.
DictGetDefault(d, u, default) == default

\* pending_amounts.get(user, 0)
DictGet(d, u, default) == IF u \in DOMAIN d THEN d[u] ELSE default

\* A batch_list whose slices run one item too far.
RECURSIVE BatchListAllWide(_, _, _)
BatchListAllWide(lst, bs, k) ==
    IF InRange(k, Len(lst), bs)
    THEN <<PySlice(lst, k, k + bs + 1)>> \o BatchListAllWide(lst, bs, NextIndex(k, bs))
    ELSE <<>>

\* list(batch_list(lst, bs)), from index k on.
RECURSIVE BatchListAll(_, _, _)
BatchListAll(lst, bs, k) ==
    IF InRange(k, Len(lst), bs)
    THEN <<PySlice(lst, k, k + bs)>> \o BatchListAll(lst, bs, NextIndex(k, bs))
    ELSE <<>>

\* A setupVestingPlans call whose amounts are in the opposite order.
SetupCallReversed(batch_users, batch_amounts) ==
    [fn |-> "setupVestingPlans",
     users |-> batch_users,
     amounts |-> [j \in 1..Len(batch_amounts) |-> batch_amounts[Len(batch_amounts) + 1 - j]]]

\* encode_abi("setupVestingPlans", args=[TOKEN_ADDRESS, NEW_START_TIME,
\* NEW_END_TIME, batch_users, batch_amounts])
SetupCall(batch_users, batch_amounts) ==
    [fn |-> "setupVestingPlans", users |-> batch_users, amounts |-> batch_amounts]

\* Lines 129-179 and 204-206: no row was parsed, or the vestingPlans multicall
\* raised: main logs and returns.
MainReturnsEarly ==
    /\ script = "main"
    /\ pc = "start"
    /\ pc' = "returned"
    /\ UNCHANGED <<script, raised, batch_size, calcVars, genVars, scriptVars, mainVars>>

\* Lines 181-262: the plans are fetched; the pending amounts of the users
\* without a plan are fetched (or set to 0 when that multicall raises).
MainFetch ==
    /\ script = "main"
    /\ pc = "start"
    /\ users_data # <<>>
    /\ LET no_vesting_users == NoVestingUsers(users_data, vesting_results, 1)
           n == Len(no_vesting_users)
       IN  IF n = 0 THEN UNCHANGED pending_amounts
           ELSE \/ \E pending_results \in [1..n -> PendingAmounts] :
                      pending_amounts' = MapResults(no_vesting_users, pending_results)
                \/ pending_amounts' = MapResults(no_vesting_users, [k \in 1..n |-> 0])
    /\ i' = 0
    /\ pc' = "process"
    /\ UNCHANGED <<script, raised, batch_size, calcVars, input_list, batches, scriptVars,
                   users_data, vesting_results, listVars, encodeVars>>

\* Lines 264-319: one iteration of the processing loop.
MainProcessRow ==
    /\ script = "main"
    /\ pc = "process"
    /\ i < Len(users_data)
    /\ LET user == users_data[i + 1][1]
           csv_amount == users_data[i + 1][2]
           plan == vesting_results[i + 1]
       IN  IF HasNoPlan(plan)
           THEN LET pending == DictGet(pending_amounts, user, 0)
                    total_amount == csv_amount + pending
                IN  /\ setup_users' = Append(setup_users, user)
                    /\ setup_amounts' = Append(setup_amounts, total_amount)
                    /\ UNCHANGED <<reset_users, reset_amounts>>
           ELSE LET future_locked == calculate_future_locked_amount(plan, EXECUTION_TIMESTAMP)
                IN  IF future_locked.raised # "none"
                    THEN UNCHANGED listVars
                    ELSE /\ reset_users' = Append(reset_users, user)
                         /\ reset_amounts' = Append(reset_amounts, future_locked.value + csv_amount)
                         /\ UNCHANGED <<setup_users, setup_amounts>>
    /\ i' = i + 1
    /\ UNCHANGED <<script, pc, raised, batch_size, calcVars, input_list, batches,
                   scriptVars, fetchedVars, encodeVars>>

\* Lines 321-412: the loop is over; the setup batches are created.
MainCreateBatches ==
    /\ script = "main"
    /\ pc = "process"
    /\ i >= Len(users_data)
    /\ IF setup_users # <<>>
       THEN /\ user_batches' = BatchListAll(setup_users, batch_size, 0)
            /\ amount_batches' = BatchListAll(setup_amounts, batch_size, 0)
            /\ pc' = "encode_setup"
       ELSE /\ UNCHANGED <<user_batches, amount_batches>>
            /\ pc' = "encode_reset"
    /\ batch_index' = 0
    /\ UNCHANGED <<script, raised, batch_size, calcVars, genVars, scriptVars,
                   fetchedVars, listVars, calldata>>

\* Lines 414-448: one iteration over zip(user_batches, amount_batches).
MainEncodeSetup ==
    /\ script = "main"
    /\ pc = "encode_setup"
    /\ batch_index < Min(Len(user_batches), Len(amount_batches))
    /\ calldata' = Append(calldata, SetupCall(user_batches[batch_index + 1],
                                              amount_batches[batch_index + 1]))
    /\ batch_index' = batch_index + 1
    /\ UNCHANGED <<script, pc, raised, batch_size, calcVars, genVars, scriptVars,
                   fetchedVars, listVars, user_batches, amount_batches>>

\* The zip is exhausted: on to the reset transaction.
MainEncodeSetupEnd ==
    /\ script = "main"
    /\ pc = "encode_setup"
    /\ batch_index >= Min(Len(user_batches), Len(amount_batches))
    /\ pc' = "encode_reset"
    /\ UNCHANGED <<script, raised, batch_size, calcVars, genVars, scriptVars, mainVars>>

\* Lines 453-489: the reset transaction, a single one, and the end of main.
MainEncodeReset ==
    /\ script = "main"
    /\ pc = "encode_reset"
    /\ IF reset_users # <<>>
       THEN calldata' = Append(calldata, [fn |-> "resetVestingPlans",
                                          users |-> reset_users,
                                          amounts |-> reset_amounts])
       ELSE UNCHANGED calldata
    /\ pc' = "done"
    /\ UNCHANGED <<script, raised, batch_size, calcVars, genVars, scriptVars,
                   fetchedVars, listVars, user_batches, amount_batches, batch_index>>

\* Lines 477-479: encode_abi (or writing the calldata file) raises: main logs
\* the error and returns.
MainEncodeRaises ==
    /\ script = "main"
    /\ \/ pc = "encode_setup" /\ batch_index < Min(Len(user_batches), Len(amount_batches))
       \/ pc = "encode_reset" /\ reset_users # <<>>
    /\ pc' = "failed"
    /\ UNCHANGED <<script, raised, batch_size, calcVars, genVars, scriptVars, mainVars>>

\* ------------------------------------------------------------ specification
RECURSIVE SeqsUpTo(_, _)
SeqsUpTo(S, n) ==
    IF n = 0 THEN {<<>>}
    ELSE LET shorter == SeqsUpTo(S, n - 1)
         IN  shorter \cup {Append(s, x) : s \in {t \in shorter : Len(t) = n - 1}, x \in S}

BatchSizes == (0 - MaxBatch)..MaxBatch

\* The CSV files of n rows: row k names user k.
Updates(n) == {u \in [1..n -> (1..MaxRows) \X CsvAmounts] : \A k \in 1..n : u[k][1] = k}

NoMainInputs ==
    /\ users_data = <<>>
    /\ vesting_results = <<>>

NoInputs ==
    /\ NoMainInputs
    /\ user_updates = <<>>
    /\ current_locked = <<>>
    /\ vesting_info = <<>>
    /\ dry_run = FALSE

InitCalc ==
    /\ script = "calc"
    /\ pc = "start"
    /\ vesting_plan \in Plans
    /\ input_list = <<>>
    /\ batch_size = 1
    /\ NoInputs

InitReset ==
    /\ NoMainInputs
    /\ script = "reset"
    /\ pc = "start"
    /\ vesting_plan = <<0, 0, 0, 0>>
    /\ input_list = <<>>
    /\ batch_size \in BatchSizes
    /\ \E n \in 0..MaxRows :
        /\ user_updates \in Updates(n)
        /\ current_locked \in [1..n -> LockedAmounts]
    /\ vesting_info = <<>>
    /\ dry_run = FALSE

InitBatch ==
    /\ script = "batch"
    /\ pc = "start"
    /\ vesting_plan = <<0, 0, 0, 0>>
    /\ input_list \in SeqsUpTo(Items, MaxLen)
    /\ batch_size \in BatchSizes
    /\ NoInputs

InitSetup ==
    /\ NoMainInputs
    /\ script = "setup"
    /\ pc = "start"
    /\ vesting_plan = <<0, 0, 0, 0>>
    /\ input_list = <<>>
    /\ batch_size \in BatchSizes
    /\ \E n \in 0..MaxRows :
        /\ user_updates \in Updates(n)
        /\ vesting_info \in [1..n -> InfoPlans]
    /\ current_locked = <<>>
    /\ dry_run \in BOOLEAN

InitMain ==
    /\ script = "main"
    /\ pc = "start"
    /\ vesting_plan = <<0, 0, 0, 0>>
    /\ input_list = <<>>
    /\ batch_size \in BATCH_SIZES
    /\ user_updates = <<>>
    /\ current_locked = <<>>
    /\ vesting_info = <<>>
    /\ dry_run = FALSE
    /\ \E n \in 0..MaxRows :
        /\ users_data \in Updates(n)
        /\ vesting_results \in [1..n -> MainPlans]

Init ==
    /\ raised = "none"
    /\ future_timestamp = 0
    /\ locked = NoCall
    /\ prev_timestamp = 0
    /\ prev_locked = NoCall
    /\ i = 0
    /\ batches = <<>>
    /\ updated_data = <<>>
    /\ existing_updates = <<>>
    /\ new_setups = <<>>
    /\ total_batches = 0
    /\ batch_num = 0
    /\ batch_data = <<>>
    /\ transaction_hashes = <<>>
    /\ all_transaction_hashes = <<>>
    /\ all_batch_data = <<>>
    /\ txs = <<>>
    /\ progress = <<>>
    /\ dry_run_summary = <<>>
    /\ pending_amounts = <<>>
    /\ setup_users = <<>>
    /\ setup_amounts = <<>>
    /\ reset_users = <<>>
    /\ reset_amounts = <<>>
    /\ user_batches = <<>>
    /\ amount_batches = <<>>
    /\ batch_index = 0
    /\ calldata = <<>>
    /\ (InitCalc \/ InitBatch \/ InitReset \/ InitSetup \/ InitMain)

Next ==
    \/ Calculate
    \/ BatchListRaise
    \/ BatchListYield
    \/ BatchListStop
    \/ ResetPrepare
    \/ ResetSend
    \/ ResetSendRaises
    \/ ResetReceipt
    \/ ResetFinish
    \/ SetupPrepare
    \/ \E op \in Operations : SetupDryBatch(op)
    \/ \E op \in Operations : SetupSend(op)
    \/ \E op \in Operations : SetupSendRaises(op)
    \/ \E op \in Operations : SetupReceipt(op)
    \/ SetupResetLoopEnd
    \/ SetupFinish
    \/ MainReturnsEarly
    \/ MainFetch
    \/ MainProcessRow
    \/ MainCreateBatches
    \/ MainEncodeSetup
    \/ MainEncodeSetupEnd
    \/ MainEncodeReset
    \/ MainEncodeRaises

Spec == Init /\ [][Next]_vars

\* ------------------------------------------------------------------ claims
RECURSIVE Flatten(_)
Flatten(ss) == IF ss = <<>> THEN <<>> ELSE Head(ss) \o Flatten(Tail(ss))

Called == script = "calc" /\ locked.raised # "nocall"
Amount == vesting_plan[1]
StartTime == vesting_plan[3]
EndTime == vesting_plan[4]
Partial == Called /\ Amount > 0 /\ StartTime < future_timestamp /\ future_timestamp < EndTime

\* C1: for a plan with totalAmount > 0 and startTime < atTime < endTime the
\* call returns totalAmount - floor(totalAmount * (atTime - startTime) /
\* (endTime - startTime)): the unlocked part u is the one integer with
\* u * duration <= totalAmount * elapsed < (u + 1) * duration.  The worked
\* example (1000, start 1000, end 2000, atTime 1500) returns 500.
C1_PartialUnlockFloor ==
    /\ Partial =>
          /\ locked.raised = "none"
          /\ LET u == Amount - locked.value
                 duration == EndTime - StartTime
                 elapsed == future_timestamp - StartTime
             IN  /\ u * duration <= Amount * elapsed
                 /\ Amount * elapsed < (u + 1) * duration
    /\ (Called /\ vesting_plan = ExamplePlan /\ future_timestamp \in ExampleTimes)
          => locked = Return(500)

\* C1 witness: a partial unlock whose division does not come out even.
C1_Witness ==
    /\ Partial
    /\ (Amount * (future_timestamp - StartTime)) % (EndTime - StartTime) # 0
    /\ locked.value < Amount

C3_Original ==
    (Called /\ Amount > 0 /\ StartTime = EndTime) => locked.raised = "InvalidPlan"

\* C4: for a fixed plan, of two calls the one at the later (or equal)
\* timestamp returns a locked amount that is no larger.
C4_Monotone ==
    (Called /\ prev_locked.raised # "nocall") =>
        /\ locked.raised = "none" /\ prev_locked.raised = "none"
        /\ (prev_timestamp <= future_timestamp => prev_locked.value >= locked.value)
        /\ (future_timestamp <= prev_timestamp => locked.value >= prev_locked.value)

\* C4 witness: two calls inside the vesting period with a strictly smaller
\* locked amount at the later one.
C4_Witness ==
    /\ Partial /\ prev_locked.raised = "none"
    /\ StartTime < prev_timestamp /\ prev_timestamp < future_timestamp
    /\ prev_locked.value > locked.value
    /\ locked.value > 0

\* C5: a plan with totalAmount = 0 has locked amount 0 at every atTime,
\* whatever its claimedAmount, startTime and endTime.
C5_ZeroAmount ==
    (Called /\ Amount = 0) => locked = Return(0)

\* C5 witness: a zero-amount plan with a claimed amount and startTime >= endTime.
C5_Witness ==
    /\ Called /\ Amount = 0 /\ vesting_plan[2] > 0 /\ StartTime >= EndTime
    /\ future_timestamp >= EndTime
    /\ locked = Return(0)

Batching == script = "batch" /\ batch_size > 0

\* C6: for a positive batch size the batches yielded so far are the
\* contiguous slices of the input in order (batch k holds items
\* (k-1)*n+1 .. min(k*n, len)), and once the generator stops their
\* concatenation is the input list.
C6_Concatenation ==
    Batching =>
        /\ \A k \in 1..Len(batches) :
              batches[k] = SubSeq(input_list, (k - 1) * batch_size + 1,
                                  Min(k * batch_size, Len(input_list)))
        /\ Flatten(batches) = SubSeq(input_list, 1, Min(i, Len(input_list)))
        /\ (pc = "done" => Flatten(batches) = input_list)

\* C6 witness: seven items split by three, the generator finished.
C6_Witness ==
    /\ Batching /\ pc = "done"
    /\ Len(input_list) = 7 /\ batch_size = 3
    /\ Len(batches) = 3
    /\ Flatten(batches) = input_list
    /\ input_list[1] # input_list[2]

\* C7: for a positive batch size n the finished generator has yielded
\* ceil(len/n) batches (the least count c with c*n >= len), each but the last
\* of length n and the last of length 1..n.
C7_BatchCount ==
    (Batching /\ pc = "done") =>
        LET c == Len(batches)
            len == Len(input_list)
        IN  /\ c * batch_size >= len
            /\ (c > 0 => (c - 1) * batch_size < len)
            /\ \A k \in 1..c :
                  IF k < c THEN Len(batches[k]) = batch_size
                  ELSE Len(batches[k]) >= 1 /\ Len(batches[k]) <= batch_size

\* C7 witness: seven items by three give batches of sizes 3, 3, 1.
C7_Witness ==
    /\ Batching /\ pc = "done"
    /\ Len(input_list) = 7 /\ batch_size = 3
    /\ Len(batches) = 3
    /\ Len(batches[1]) = 3 /\ Len(batches[2]) = 3 /\ Len(batches[3]) = 1

Looping == script \in {"reset", "setup"}
\* The users of the transactions of one operation, in the order they were sent.
UsersSent(op) ==
    Flatten([k \in 1..Len(txs) |-> IF txs[k].op = op THEN txs[k].users ELSE <<>>])
\* The list update_vesting_plans batches for an operation.
ListOf(op) ==
    IF script = "reset" THEN (IF op = "reset" THEN updated_data ELSE <<>>)
    ELSE LoopList(op)
IsPrefix(a, b) == Len(a) <= Len(b) /\ a = SubSeq(b, 1, Len(a))

\* C8: for a positive batch size no batch is empty: not one yielded by
\* batch_list, not one sent or recorded by the loops of update_vesting_plans
\* (nor the one in hand when sending raised); and an empty input gives no
\* batch at all: no yield, no transaction, no batch record.
C8_NoEmptyBatch ==
    batch_size > 0 =>
        /\ script = "batch" =>
              /\ \A k \in 1..Len(batches) : batches[k] # <<>>
              /\ (input_list = <<>> => batches = <<>>)
        /\ Looping =>
              /\ \A k \in 1..Len(txs) : txs[k].users # <<>>
              /\ \A k \in 1..Len(all_batch_data) : all_batch_data[k].users # <<>>
              /\ (pc = "raised" => batch_data # <<>>)
              /\ \A op \in Operations :
                    (pc # "start" /\ ListOf(op) = <<>>) =>
                        /\ \A k \in 1..Len(txs) : txs[k].op # op
                        /\ \A k \in 1..Len(all_batch_data) :
                              all_batch_data[k].operation # op

\* C8 witness: reset_vesting_plans.py done with a full batch and a shorter
\* last one.
C8_Witness ==
    /\ script = "reset" /\ pc = "done" /\ batch_size = 2
    /\ Len(txs) = 2
    /\ Len(txs[1].users) = 2 /\ Len(txs[2].users) = 1
    /\ Len(progress) = 1

\* C9 as stated: with a batch size that is zero or negative, partitioning
\* fails with an error surfaced to the caller (any exception is counted as
\* the InvalidArgument of the claim): batch_list does not end normally, and
\* reset_vesting_plans.py's update_vesting_plans raises before any batch is
\* sent or any progress is saved.
C9_Original ==
    batch_size <= 0 =>
        /\ (script = "batch" /\ pc # "start") => (pc = "raised" /\ raised # "none")
        /\ (script = "reset" /\ pc # "start") =>
              (pc = "raised" /\ raised # "none" /\ txs = <<>> /\ progress = <<>>)

\* C10: in the live loops every transaction is sent after all earlier ones
\* got a receipt of status 1, so at most one (the last) is without receipt;
\* batches go out in order: resets before setups, batch numbers 1, 2, ...
\* within an operation, and (for a positive batch size) the users sent are
\* a prefix of the prepared list, in its order.
C10_Sequential ==
    Looping =>
        /\ \A k \in 1..Len(txs) : \A j \in 1..(k - 1) : txs[j].receipt = <<1>>
        /\ Cardinality({k \in 1..Len(txs) : txs[k].receipt = <<>>}) <= 1
        /\ \A k \in 1..Len(txs) :
              /\ txs[k].batch_num =
                    1 + Cardinality({j \in 1..(k - 1) : txs[j].op = txs[k].op})
              /\ \A j \in 1..(k - 1) : txs[j].op = "setup" => txs[k].op = "setup"
        /\ batch_size > 0 =>
              \A op \in Operations : IsPrefix(UsersSent(op), BatchUsers(ListOf(op)))

\* C10 witness: vesting_setup.py, live: a reset batch with a receipt of
\* status 1, then a setup batch sent and still without receipt.
C10_Witness ==
    /\ script = "setup" /\ ~dry_run /\ pc = "setup_wait"
    /\ Len(txs) = 2
    /\ txs[1].op = "reset" /\ txs[1].receipt = <<1>>
    /\ txs[2].op = "setup" /\ txs[2].receipt = <<>>

\* The calls of function fn that main handed to encode_abi, by position.
Encoded(fn) == {k \in 1..Len(calldata) : calldata[k].fn = fn}

\* C11 as stated: every list of users that main hands to encode_abi, for
\* setupVestingPlans and for resetVestingPlans, has at most BATCH_SIZE items.
C11_Original ==
    script = "main" =>
        \A k \in 1..Len(calldata) : Len(calldata[k].users) <= batch_size

\* C11: every setupVestingPlans call gets at most BATCH_SIZE users and
\* amounts; the resetVestingPlans call is a single one and gets every reset
\* user and amount, whatever their number.
C11_SetupBatches ==
    script = "main" =>
        /\ \A k \in Encoded("setupVestingPlans") :
              /\ Len(calldata[k].users) <= batch_size
              /\ Len(calldata[k].amounts) <= batch_size
        /\ Cardinality(Encoded("resetVestingPlans")) <= 1
        /\ \A k \in Encoded("resetVestingPlans") :
              /\ calldata[k].users = reset_users
              /\ calldata[k].amounts = reset_amounts

\* C11 witness: main ended after a full setup batch and a reset call with
\* more than BATCH_SIZE users.
C11_Witness ==
    /\ script = "main" /\ pc = "done"
    /\ \E k \in Encoded("setupVestingPlans") : Len(calldata[k].users) = batch_size
    /\ \E k \in Encoded("resetVestingPlans") : Len(calldata[k].users) > batch_size

DryRun == script = "setup" /\ dry_run
\* The rows of the batch_infos recorded for one operation, in order.
RowsRecorded(op) ==
    Flatten([k \in 1..Len(all_batch_data) |->
                IF all_batch_data[k].operation = op
                THEN all_batch_data[k].user_updates ELSE <<>>])

\* C12: vesting_setup.update_vesting_plans with dry_run=True never sends a
\* transaction and never saves transaction progress; it records one
\* batch_info per batch (resets first, numbered 1, 2, ... within an
\* operation, holding the batch's users and amounts), the batches of a
\* positive batch size being the prepared lists cut into runs of at most
\* batch_size rows; and it ends by saving one dry-run summary of these
\* batch_infos and the two prepared lists.
C12_DryRun ==
    DryRun =>
        /\ txs = <<>> /\ all_transaction_hashes = <<>> /\ progress = <<>>
        /\ \A k \in 1..Len(all_batch_data) :
              LET info == all_batch_data[k] IN
              /\ info.batch_number =
                    1 + Cardinality({j \in 1..(k - 1) :
                                        all_batch_data[j].operation = info.operation})
              /\ \A j \in 1..(k - 1) :
                    all_batch_data[j].operation = "setup" => info.operation = "setup"
              /\ info.users = [r \in 1..Len(info.user_updates) |-> info.user_updates[r][1]]
              /\ info.amounts = [r \in 1..Len(info.user_updates) |-> info.user_updates[r][2]]
              /\ batch_size > 0 => Len(info.user_updates) \in 1..batch_size
        /\ batch_size > 0 =>
              /\ IsPrefix(RowsRecorded("reset"), existing_updates)
              /\ IsPrefix(RowsRecorded("setup"), new_setups)
        /\ (pc = "done" /\ batch_size > 0) =>
              /\ RowsRecorded("reset") = existing_updates
              /\ RowsRecorded("setup") = new_setups
              /\ \A k \in 1..(Len(all_batch_data) - 1) :
                    all_batch_data[k].operation = all_batch_data[k + 1].operation =>
                        Len(all_batch_data[k].user_updates) = batch_size
        /\ IF pc = "done"
           THEN dry_run_summary = <<[all_batch_data |-> all_batch_data,
                                     existing_updates |-> existing_updates,
                                     new_setups |-> new_setups]>>
           ELSE dry_run_summary = <<>>

\* C12 witness: a dry run ended after recording two reset batches and a setup
\* batch.
C12_Witness ==
    /\ DryRun /\ pc = "done"
    /\ Len(all_batch_data) = 3
    /\ all_batch_data[2].operation = "reset"
    /\ all_batch_data[3].operation = "setup"

\* The rows of user_updates up to row k whose plan has (has no) total amount.
WithPlan(k) == {j \in 1..k : vesting_info[j][1] > 0}
WithoutPlan(k) == {j \in 1..k : ~(vesting_info[j][1] > 0)}

\* C13: vesting_setup.prepare_update_data puts every row of user_updates in
\* exactly one of the two lists, in input order: a row whose plan has
\* total_amount > 0 is the next item of existing_updates, with amount
\* (total_amount - claimed_amount) + amount_to_add; any other row is the next
\* item of new_setups, with amount_to_add; the lengths add up to
\* len(user_updates).
C13_Partition ==
    (script = "setup" /\ pc # "start") =>
        /\ Len(existing_updates) + Len(new_setups) = Len(user_updates)
        /\ Len(existing_updates) = Cardinality(WithPlan(Len(user_updates)))
        /\ \A k \in 1..Len(user_updates) :
              LET user == user_updates[k][1]
                  amount_to_add == user_updates[k][2]
              IN  IF k \in WithPlan(k)
                  THEN existing_updates[Cardinality(WithPlan(k))] =
                          <<user, (vesting_info[k][1] - vesting_info[k][2]) + amount_to_add>>
                  ELSE new_setups[Cardinality(WithoutPlan(k))] = <<user, amount_to_add>>

\* C13 witness: three rows were prepared: two with a plan, one of them partly
\* claimed, and one without.
C13_Witness ==
    /\ script = "setup" /\ pc # "start"
    /\ Len(existing_updates) = 2 /\ Len(new_setups) = 1
    /\ \E k \in 1..Len(user_updates) : vesting_info[k][1] > 0 /\ vesting_info[k][2] > 0

\* main is past its processing loop.
AfterLoop == script = "main" /\ pc \in {"encode_setup", "encode_reset", "done", "failed"}
\* The rows up to row k whose fetched plan has amount 0 (another amount).
NoPlanRows(k) == {j \in 1..k : vesting_results[j][1] = 0}
PlanRows(k) == {j \in 1..k : vesting_results[j][1] # 0}
\* Item k of list lst is x.
At(lst, k, x) == k \in 1..Len(lst) /\ lst[k] = x
\* How often user u is in list lst.
Occurrences(lst, u) == Cardinality({j \in 1..Len(lst) : lst[j] = u})

\* C14: main's processing loop puts the user of every row it has processed
\* in exactly one of setup_users and reset_users, in CSV order: in setup_users
\* iff the fetched plan's amount is 0; after the loop every row is processed
\* and len(setup_users) + len(reset_users) == len(users_data).
C14_Partition ==
    (script = "main" /\ pc \notin {"start", "returned"}) =>
        /\ Len(setup_users) + Len(reset_users) = i
        /\ AfterLoop => i = Len(users_data)
        /\ \A k \in 1..i :
              LET user == users_data[k][1] IN
              /\ Occurrences(setup_users, user) + Occurrences(reset_users, user) = 1
              /\ IF vesting_results[k][1] = 0
                 THEN At(setup_users, Cardinality(NoPlanRows(k)), user)
                 ELSE At(reset_users, Cardinality(PlanRows(k)), user)

\* C14 witness: the loop is over with three rows, in both lists.
C14_Witness ==
    /\ AfterLoop
    /\ Len(users_data) = 3
    /\ setup_users # <<>> /\ reset_users # <<>>

\* The pending amount main holds for user u: the fetched one, 0 when none.
PendingOf(u) == IF u \in DOMAIN pending_amounts THEN pending_amounts[u] ELSE 0

\* C15: the amount main records for a processed row is csv_amount plus the
\* user's pending amount (0 when none was fetched) when the plan's amount is
\* 0, and calculate_future_locked_amount(plan, EXECUTION_TIMESTAMP) plus
\* csv_amount otherwise; it is recorded at the user's position.
C15_Amounts ==
    (script = "main" /\ pc \notin {"start", "returned"}) =>
        \A k \in 1..i :
            LET user == users_data[k][1]
                csv_amount == users_data[k][2]
                plan == vesting_results[k]
            IN  IF plan[1] = 0
                THEN At(setup_amounts, Cardinality(NoPlanRows(k)),
                        csv_amount + PendingOf(user))
                ELSE /\ calculate_future_locked_amount(plan, EXECUTION_TIMESTAMP).raised = "none"
                     /\ At(reset_amounts, Cardinality(PlanRows(k)),
                           calculate_future_locked_amount(plan, EXECUTION_TIMESTAMP).value
                               + csv_amount)

\* C15 witness: the loop is over; a user without plan has a pending amount of
\* 1 and got csv_amount + 1, a user with the plan (5, 1, T - 2, T + 1), of
\* which 5 - 5 * 2 // 3 = 2 are locked at T = EXECUTION_TIMESTAMP, got
\* 2 + csv_amount, and a user whose plan has not started got all 3 of it.
C15_Witness ==
    /\ AfterLoop
    /\ \E k \in 1..Len(setup_users) :
          /\ PendingOf(setup_users[k]) = 1
          /\ setup_amounts[k] = users_data[setup_users[k]][2] + 1
    /\ \E k \in 1..Len(reset_users) :
          /\ vesting_results[reset_users[k]][1] = 5
          /\ reset_amounts[k] = 2 + users_data[reset_users[k]][2]
    /\ \E k \in 1..Len(reset_users) :
          /\ vesting_results[reset_users[k]][3] > EXECUTION_TIMESTAMP
          /\ reset_amounts[k] = 3 + users_data[reset_users[k]][2]

\* A live loop of update_vesting_plans ended on a failed batch.
Failed == Looping /\ pc = "raised" /\ raised = "Exception"
\* The transactions that got a receipt of status 1, by hash.
Successful == {k \in 1..Len(txs) : txs[k].receipt = <<1>>}
\* The hashes as the script lists them: tx_hash, or (operation, tx_hash).
HashEntry(k) == IF script = "reset" THEN k ELSE <<txs[k].op, k>>

\* C16: when a batch of a live loop fails (sending raises, no receipt comes,
\* or the receipt's status is not 1) the exception leaves
\* update_vesting_plans: nothing runs after it, so no later batch is sent
\* (every transaction but the failed one has a receipt of status 1, and in
\* vesting_setup.py a failure in the reset loop leaves no setup transaction),
\* and save_progress was called exactly once, with the hashes of all batches
\* that succeeded before, in order.
C16_FailedBatch ==
    /\ (Looping /\ \E k \in 1..Len(txs) : txs[k].receipt = <<0>>) => Failed
    /\ Failed =>
          /\ ~ENABLED Next
          /\ \A k \in 1..(Len(txs) - 1) : k \in Successful
          /\ Len(txs) - Cardinality(Successful) <= 1
          /\ (script = "setup" /\ batch_size > 0
                /\ UsersSent("reset") # BatchUsers(existing_updates)) =>
                    \A k \in 1..Len(txs) : txs[k].op = "reset"
          /\ Len(progress) = 1
          /\ progress[1].transaction_hashes =
                [k \in 1..Cardinality(Successful) |-> HashEntry(k)]

\* C16 witness: vesting_setup.py, live: a reset batch succeeded, the second
\* reset batch got a receipt of status 0, and a setup list was waiting.
C16_Witness ==
    /\ Failed /\ script = "setup"
    /\ Len(txs) = 2
    /\ txs[2].op = "reset" /\ txs[2].receipt = <<0>>
    /\ new_setups # <<>>
    /\ progress[1].transaction_hashes = <<<<"reset", 1>>>>

\* Every progress file saved so far counts as many batches as it lists hashes.
CountsMatch ==
    \A k \in 1..Len(progress) :
        progress[k].batches_processed = Len(progress[k].transaction_hashes)

\* C17 as stated: in a live run of vesting_setup.update_vesting_plans every
\* save_progress call has batches_processed == len(all_transaction_hashes):
\* after a failed reset batch, after a failed setup batch that follows
\* successful resets, and on successful completion.
C17_Original == (script = "setup" /\ ~dry_run) => CountsMatch

\* C18 as stated: in reset_vesting_plans.update_vesting_plans every
\* save_progress call has batches_processed == len(transaction_hashes): the
\* index of the failing batch on failure, total_batches on success.
C18_Original == script = "reset" => CountsMatch

\* The CSV row of user u, and the amount main is to record for row k.
RowOf(u) == CHOOSE k \in 1..Len(users_data) : users_data[k][1] = u
AmountOfRow(k) ==
    IF vesting_results[k][1] = 0
    THEN users_data[k][2] + PendingOf(users_data[k][1])
    ELSE calculate_future_locked_amount(vesting_results[k], EXECUTION_TIMESTAMP).value
             + users_data[k][2]
\* Lists us and as are as long as each other and as[j] is the amount of the
\* row of user us[j].
Aligned(us, as) ==
    /\ Len(us) = Len(as)
    /\ \A j \in 1..Len(us) :
          /\ \E k \in 1..Len(users_data) : users_data[k][1] = us[j]
          /\ as[j] = AmountOfRow(RowOf(us[j]))

\* C19: in main the user list and the amount list of each kind stay aligned
\* after every iteration of the processing loop (same length, item j of both
\* from the same CSV row), and so do the two batches of every
\* setupVestingPlans call, and the lists of the resetVestingPlans call.
C19_Aligned ==
    script = "main" =>
        /\ Aligned(setup_users, setup_amounts)
        /\ Aligned(reset_users, reset_amounts)
        /\ Len(user_batches) = Len(amount_batches)
        /\ \A k \in 1..Len(calldata) : Aligned(calldata[k].users, calldata[k].amounts)
        /\ \A k \in 1..Len(calldata) :
              (calldata[k].fn = "setupVestingPlans" /\ k <= Len(user_batches)) =>
                  /\ calldata[k].users = user_batches[k]
                  /\ calldata[k].amounts = amount_batches[k]

\* C19 witness: main ended after a setupVestingPlans call for two users whose
\* amounts differ, followed by a second setup call.
C19_Witness ==
    /\ script = "main" /\ pc = "done"
    /\ Cardinality(Encoded("setupVestingPlans")) = 2
    /\ \E k \in Encoded("setupVestingPlans") :
          /\ Len(calldata[k].users) = 2
          /\ calldata[k].amounts[1] # calldata[k].amounts[2]

\* C20: for non-negative integers, plans with startTime >= endTime included,
\* calculate_future_locked_amount returns without raising, and what it
\* returns is at least 0 and at most totalAmount; the division is reached
\* only with startTime < atTime < endTime, where its divisor is positive: any
\* other call returns 0 or totalAmount, whichever the boundary tests give.
C20_NoRaise ==
    Called =>
        /\ locked.raised = "none"
        /\ 0 <= locked.value /\ locked.value <= Amount
        /\ ~(StartTime < future_timestamp /\ future_timestamp < EndTime) =>
              locked.value = (IF future_timestamp >= EndTime THEN 0 ELSE Amount)
        /\ (StartTime < future_timestamp /\ future_timestamp < EndTime) =>
              EndTime - StartTime > 0

\* C20 witness: a call for a plan with a positive amount and startTime ==
\* endTime == atTime has returned 0, and the call before it, for an earlier
\* time, has returned the amount.
C20_Witness ==
    /\ Called /\ locked = Return(0)
    /\ Amount > 0 /\ StartTime = EndTime /\ future_timestamp = StartTime
    /\ prev_timestamp < StartTime
    /\ prev_locked = Return(Amount)

=============================================================================
